---- MODULE Spec2Model ----
(***************************************************************************)
(* Model of the chat client's state store (useChatStore.ts, first variant) *)
(* together with the part of the auth store it reads (useAuthStore.ts).    *)
(*                                                                         *)
(* Every store method and every socket handler is one action.  An async    *)
(* method is split at its awaits: the call (everything up to the first     *)
(* await, the REST request included) and the continuation that runs when   *)
(* the response arrives.  The REST server and the push server are the      *)
(* environment: the server keeps the messages it has created and the read  *)
(* flags, and answers every request from that state at the moment the     *)
(* request is issued; the answer travels for an arbitrary time.            *)
(***************************************************************************)
EXTENDS Integers, Sequences, FiniteSets, TLC

\* ------------------------------------------------------------- bounds
\* messages the server creates in one run
MaxMsg == 2
\* REST requests issued in one run
MaxReq == 3
\* push channels opened in one run
MaxChan == 2
\* the same two, for the runs that check the newMessage handler alone
MaxPushMsg == 2
MaxPushReq == 2
\* the same two, for the runs in which the server refuses REST calls
MaxAuthMsg == 1
MaxAuthReq == 2
\* the same two, for the runs that check sendMessage
MaxSendMsg == 2
MaxSendReq == 2
\* the same two, for the runs that check markMessageAsRead
MaxMarkMsg == 2
MaxMarkReq == 3
\* length of onlineUsers in the runs of the second store
MaxOnline == 6
MaxErrMsg == 1
MaxErrReq == 1
MaxBatchMsg == 2
MaxBatchReq == 3

\* response interceptors installed by the chat page (setupAxiosInterceptors)
Interceptors == 1

\* ------------------------------------------------------------- values
Me == "me"
Peers == {"u1", "u2"}
Users == Peers \cup {Me}

NoUser == "nobody"
NoMsg ==
  [id |-> 0, senderId |-> NoUser, receiverId |-> NoUser, read |-> FALSE,
   createdAt |-> 0]
NoConv ==
  [id |-> [kind |-> "none", peer |-> NoUser],
   user |-> [id |-> NoUser, username |-> NoUser],
   lastMessage |-> NoMsg, unreadCount |-> 0]
NoError == [type |-> "none", code |-> 0]
NoSelection == [peer |-> NoUser, req |-> 0, applied |-> FALSE, during |-> {}]
\* how an async method stands after a step: still awaiting, or resolved
Pending == [type |-> "pending", code |-> 0]
Resolved == [type |-> "resolved", code |-> 0]
NoSocket == 0
NoCode == 0

\* outcomes of a REST call: 200, an error status, or 0 (no response received)
ErrStatuses == {401, 500}
Statuses == {200, 0} \cup ErrStatuses
Reasons == {"io server disconnect", "transport close"}

VARIABLES
  \* useAuthStore
  isAuthenticated, user, logoutPending,
  \* useChatStore
  socket, conversations, currentConversation, messages, onlineUsers,
  loading, error,
  \* socket.io channels created by io(): status and handlers' deliveries
  channels, pushed,
  \* REST calls in flight (the suspended async methods)
  requests, nextReq,
  \* the server: messages created (id = index) and ids marked read
  created, srvRead,
  \* what one run explores: the outcomes the REST endpoints produce, the
  \* number of REST requests issued and of messages created, whether io()
  \* can throw, whether GET /chat/conversations/:peerId embeds the peer
  env,
  \* history: the latest fetchMessages call (its peer, its request, whether
  \* its response has been applied, the peer's messages pushed while the GET
  \* was in flight), how often a 200 response of markMessageAsRead has been
  \* applied for each message id, and the handler that ran last
  selected, markCount, last

authVars == <<isAuthenticated, user, logoutPending>>
chatVars == <<socket, conversations, currentConversation, messages,
              onlineUsers, loading, error>>
chanVars == <<channels, pushed>>
srvVars == <<created, srvRead>>
reqVars == <<requests, nextReq>>
histVars == <<selected, env, markCount>>
vars == <<authVars, chatVars, chanVars, reqVars, srvVars, histVars, last>>

\* ------------------------------------------------------------- helpers
Range(s) == {s[i] : i \in DOMAIN s}

Ids(s) == {s[i].id : i \in DOMAIN s}

Ran(op, peer, msg, chan, result) ==
  [op |-> op, peer |-> peer, msg |-> msg, chan |-> chan, result |-> result]

\* interface Message
Msg(id, s, r, rd) ==
  [id |-> id, senderId |-> s, receiverId |-> r, read |-> rd, createdAt |-> id]

\* interface User
UserRec(p) == [id |-> p, username |-> p]

\* response.data.user of a response that embeds no user
Undefined == [id |-> "undefined", username |-> "undefined"]

Involves(m, p) == m.senderId = p \/ m.receiverId = p

\* ------------------------------------------------------------- server
SrvMsg(i) ==
  Msg(i, created[i].senderId, created[i].receiverId, i \in srvRead)

\* GET /chat/conversations/:peerId -> messages between the user and the peer
SrvMessages(p) ==
  SelectSeq([i \in 1..Len(created) |-> SrvMsg(i)], LAMBDA m : Involves(m, p))

SrvUnread(p) ==
  Cardinality({i \in 1..Len(created) :
                 created[i].senderId = p /\ i \notin srvRead})

SrvConv(p) ==
  LET ms == SrvMessages(p)
  IN [id |-> [kind |-> "srv", peer |-> p], user |-> UserRec(p),
      lastMessage |-> ms[Len(ms)], unreadCount |-> SrvUnread(p)]

PeerSeq == <<"u1", "u2">>

\* GET /chat/conversations -> one entry per peer the user has messages with
SrvConversations ==
  LET all == [i \in 1..Len(PeerSeq) |-> PeerSeq[i]]
      with == SelectSeq(all, LAMBDA p : Len(SrvMessages(p)) > 0)
  IN [i \in 1..Len(with) |-> SrvConv(with[i])]

\* ------------------------------------------------------------- errors
createChatError(type, code) == [type |-> type, code |-> code]

\* resp.status: an HTTP status, or 0 when no response was received
handleAxiosError(resp) ==
  IF resp.status # 0
    THEN createChatError(IF resp.status = 401 THEN "auth" ELSE "server",
                         resp.status)
    ELSE createChatError("network", NoCode)

\* what a failure of the push channel carries: an object with a message
\* (an Error included), a string, or anything else
Payloads == {"object", "string", "other"}

\* handleSocketError that takes a bare string for a server failure
handleSocketError_StringIsServer(payload) ==
  IF payload = "object"
    THEN createChatError("socket", NoCode)
    ELSE IF payload = "string"
      THEN createChatError("server", NoCode)
      ELSE createChatError("socket", NoCode)

handleSocketError(payload) ==
  IF payload = "object"
    THEN createChatError("socket", NoCode)
    ELSE IF payload = "string"
      THEN createChatError("socket", NoCode)
      ELSE createChatError("socket", NoCode)

\* a catch block and an interceptor that never log out
LogoutsOn_Never(resp) == 0

\* logout() calls caused by one failed REST response: the response
\* interceptor's, then the catch block's
LogoutsOn(resp) ==
  IF resp.status = 401 THEN Interceptors + 1 ELSE 0

\* ------------------------------------------------------------- requests
Req(kind, peer, msg, status, data) ==
  [kind |-> kind, peer |-> peer, msg |-> msg, phase |-> "fetch",
   todo |-> <<>>, status |-> status, data |-> data, user |-> UserRec(NoUser)]

Issue(rec) == [i \in DOMAIN requests \cup {nextReq} |->
                 IF i = nextReq THEN rec ELSE requests[i]]

Drop(r) == [i \in DOMAIN requests \ {r} |-> requests[i]]

\* one more 200 response of markMessageAsRead(id) has been applied
Marked(id) ==
  [i \in DOMAIN markCount \cup {id} |->
     IF i # id THEN markCount[i]
     ELSE IF id \in DOMAIN markCount THEN markCount[id] + 1 ELSE 1]

\* the server marks the message read when it answers 200
SrvMark(id, status) == IF status = 200 THEN srvRead \cup {id} ELSE srvRead

\* ------------------------------------------------------------- auth store
\* checkAuth()/login() succeeding
login ==
  /\ ~isAuthenticated
  /\ isAuthenticated' = TRUE
  /\ user' = Me
  /\ last' = Ran("login", NoUser, 0, 0, NoError)
  /\ UNCHANGED <<logoutPending, chatVars, chanVars, reqVars, srvVars, histVars>>

\* logout() called from the UI: POST /auth/logout is sent
logout ==
  /\ isAuthenticated
  /\ logoutPending = 0
  /\ logoutPending' = logoutPending + 1
  /\ last' = Ran("logout", NoUser, 0, 0, NoError)
  /\ UNCHANGED <<isAuthenticated, user, chatVars, chanVars, reqVars, srvVars,
                 histVars>>

\* the finally block of logout(), once POST /auth/logout has settled
logoutDone ==
  /\ logoutPending > 0
  /\ logoutPending' = logoutPending - 1
  /\ isAuthenticated' = FALSE
  /\ user' = NoUser
  /\ last' = Ran("logoutDone", NoUser, 0, 0, NoError)
  /\ UNCHANGED <<chatVars, chanVars, reqVars, srvVars, histVars>>

\* ------------------------------------------------------------- chat store
\* applyIncomingMessage opening an entry for a peer the directory lacks
applyIncomingMessage_Synthesizes(convs, m, self) ==
  LET otherUserId == IF m.senderId = self THEN m.receiverId ELSE m.senderId
      updated == [i \in DOMAIN convs |->
                    IF convs[i].user.id = otherUserId
                      THEN [convs[i] EXCEPT
                              !.lastMessage = m,
                              !.unreadCount =
                                IF m.senderId = self THEN @ ELSE @ + 1]
                      ELSE convs[i]]
  IN IF \E i \in DOMAIN convs : convs[i].user.id = otherUserId
       THEN updated
       ELSE Append(updated,
                   [id |-> [kind |-> "conv", peer |-> otherUserId],
                    user |-> UserRec(otherUserId), lastMessage |-> m,
                    unreadCount |-> IF m.senderId = self THEN 0 ELSE 1])

\* applyIncomingMessage taking the user's own message for one unread
\* message less
applyIncomingMessage_OwnDecrements(convs, m, self) ==
  LET otherUserId == IF m.senderId = self THEN m.receiverId ELSE m.senderId
  IN [i \in DOMAIN convs |->
        IF convs[i].user.id = otherUserId
          THEN [convs[i] EXCEPT !.lastMessage = m,
                                !.unreadCount =
                                  IF m.senderId = self THEN @ - 1 ELSE @ + 1]
          ELSE convs[i]]

\* applyIncomingMessage counting the user's own messages as unread
applyIncomingMessage_CountsOwn(convs, m, self) ==
  LET otherUserId == IF m.senderId = self THEN m.receiverId ELSE m.senderId
  IN [i \in DOMAIN convs |->
        IF convs[i].user.id = otherUserId
          THEN [convs[i] EXCEPT !.lastMessage = m, !.unreadCount = @ + 1]
          ELSE convs[i]]

\* conversations.map of the newMessage handler
applyIncomingMessage(convs, m, self) ==
  LET otherUserId == IF m.senderId = self THEN m.receiverId ELSE m.senderId
  IN [i \in DOMAIN convs |->
        IF convs[i].user.id = otherUserId
          THEN [convs[i] EXCEPT
                  !.lastMessage = m,
                  !.unreadCount = IF m.senderId = self THEN @ ELSE @ + 1]
          ELSE convs[i]]

\* a newMessage handler that shows every pushed message
appendIncoming_Always(msgs, cur, m) == Append(msgs, m)

\* the message update of the newMessage handler
appendIncoming(msgs, cur, m) ==
  IF cur # NoConv /\ Involves(m, cur.user.id) THEN Append(msgs, m) ELSE msgs

\* markRead flipping the flag
markRead_Toggles(msgs, id) ==
  [i \in DOMAIN msgs |->
     IF msgs[i].id = id THEN [msgs[i] EXCEPT !.read = ~@] ELSE msgs[i]]

\* messages.map of markMessageAsRead
markRead(msgs, id) ==
  [i \in DOMAIN msgs |->
     IF msgs[i].id = id THEN [msgs[i] EXCEPT !.read = TRUE] ELSE msgs[i]]

\* conversations.find(c => c.user.id === userId)
findConv(convs, p) ==
  LET hits == {i \in DOMAIN convs : convs[i].user.id = p}
  IN IF hits = {} THEN NoConv
     ELSE convs[CHOOSE i \in hits : \A j \in hits : i <= j]

\* the unread reset of fetchMessages
resetUnread(convs, p) ==
  [i \in DOMAIN convs |->
     IF convs[i].user.id = p THEN [convs[i] EXCEPT !.unreadCount = 0]
     ELSE convs[i]]

\* setLastMessage counting the sent message as unread
setLastMessage_CountsUnread(convs, p, m) ==
  [i \in DOMAIN convs |->
     IF convs[i].user.id = p
       THEN [convs[i] EXCEPT !.lastMessage = m, !.unreadCount = @ + 1]
     ELSE convs[i]]

\* the conversations.map of sendMessage
setLastMessage(convs, p, m) ==
  [i \in DOMAIN convs |->
     IF convs[i].user.id = p THEN [convs[i] EXCEPT !.lastMessage = m]
     ELSE convs[i]]

isUserOnline(u) == u \in Range(onlineUsers)

\* fetchConversations, up to the await
fetchConversations ==
  /\ nextReq <= env.maxReq
  /\ last' = Ran("fetchConversations", NoUser, 0, 0, NoError)
  /\ IF ~isAuthenticated
       THEN UNCHANGED <<chatVars, reqVars>>
       ELSE /\ loading' = TRUE
            /\ error' = NoError
            /\ \E st \in env.statuses :
                 requests' = Issue(Req("fetchConversations", NoUser, 0, st,
                                       SrvConversations))
            /\ nextReq' = nextReq + 1
            /\ UNCHANGED <<socket, conversations, currentConversation,
                           messages, onlineUsers>>
  /\ UNCHANGED <<authVars, chanVars, srvVars, histVars>>

\* fetchConversationsDone with a catch block that leaves loading set
fetchConversationsDone_KeepsLoading(r) ==
  /\ requests[r].kind = "fetchConversations"
  /\ requests' = Drop(r)
  /\ last' = Ran("fetchConversationsDone", NoUser, 0, 0, NoError)
  /\ IF requests[r].status = 200
       THEN /\ conversations' = requests[r].data
            /\ loading' = FALSE
            /\ UNCHANGED <<error, logoutPending>>
       ELSE /\ error' = handleAxiosError(requests[r])
            /\ logoutPending' = logoutPending + LogoutsOn(requests[r])
            /\ UNCHANGED <<conversations, loading>>
  /\ UNCHANGED <<isAuthenticated, user, socket, currentConversation, messages,
                 onlineUsers, chanVars, nextReq, srvVars, histVars>>

\* fetchConversationsDone that keeps a directory it has already loaded
fetchConversationsDone_FirstWins(r) ==
  /\ requests[r].kind = "fetchConversations"
  /\ requests' = Drop(r)
  /\ last' = Ran("fetchConversationsDone", NoUser, 0, 0, NoError)
  /\ IF requests[r].status = 200
       THEN /\ conversations' = IF conversations = <<>>
                                  THEN requests[r].data
                                  ELSE conversations
            /\ loading' = FALSE
            /\ UNCHANGED <<error, logoutPending>>
       ELSE /\ error' = handleAxiosError(requests[r])
            /\ loading' = FALSE
            /\ logoutPending' = logoutPending + LogoutsOn(requests[r])
            /\ UNCHANGED conversations
  /\ UNCHANGED <<isAuthenticated, user, socket, currentConversation, messages,
                 onlineUsers, chanVars, nextReq, srvVars, histVars>>

\* fetchConversations, after the await
fetchConversationsDone(r) ==
  /\ requests[r].kind = "fetchConversations"
  /\ requests' = Drop(r)
  /\ last' = Ran("fetchConversationsDone", NoUser, 0, 0, NoError)
  /\ IF requests[r].status = 200
       THEN /\ conversations' = requests[r].data
            /\ loading' = FALSE
            /\ UNCHANGED <<error, logoutPending>>
       ELSE /\ error' = handleAxiosError(requests[r])
            /\ loading' = FALSE
            /\ logoutPending' = logoutPending + LogoutsOn(requests[r])
            /\ UNCHANGED conversations
  /\ UNCHANGED <<isAuthenticated, user, socket, currentConversation, messages,
                 onlineUsers, chanVars, nextReq, srvVars, histVars>>

\* fetchMessages(userId), up to the await
fetchMessages(p) ==
  /\ nextReq <= env.maxReq
  /\ last' = Ran("fetchMessages", p, 0, 0, NoError)
  /\ IF ~isAuthenticated
       THEN UNCHANGED <<chatVars, reqVars, histVars>>
       ELSE /\ loading' = TRUE
            /\ error' = NoError
            /\ \E st \in env.statuses, embedded \in env.embedsUser :
                 requests' = Issue(
                   [Req("fetchMessages", p, 0, st, SrvMessages(p))
                      EXCEPT !.user = IF embedded THEN UserRec(p)
                                      ELSE Undefined])
            /\ nextReq' = nextReq + 1
            /\ selected' = [peer |-> p, req |-> nextReq, applied |-> FALSE,
                             during |-> {}]
            /\ UNCHANGED <<socket, conversations, currentConversation,
                           messages, onlineUsers, env, markCount>>
  /\ UNCHANGED <<authVars, chanVars, srvVars>>

\* a filter that takes every unread message, the user's own included
unreadMessages_IncludesOwn(msgs, p) ==
  SelectSeq(msgs, LAMBDA m : ~m.read)

\* response.data.messages.filter(m => !m.read && m.senderId === userId)
unreadMessages(msgs, p) ==
  SelectSeq(msgs, LAMBDA m : ~m.read /\ m.senderId = p)

\* the conversation fetchMessages opens: the directory entry or a new one
openedConversation(convs, p, u) ==
  IF findConv(convs, p) # NoConv
    THEN findConv(convs, p)
    ELSE [id |-> [kind |-> "conv", peer |-> p], user |-> u,
          lastMessage |-> NoMsg, unreadCount |-> 0]

\* the first of the remaining mark-read calls of fetchMessages' loop: the
\* POST is sent if the user is still authenticated, else every remaining
\* call returns at once and the method ends
markNext(r, todo) ==
  IF todo = <<>> \/ ~isAuthenticated
    THEN /\ requests' = Drop(r)
         /\ UNCHANGED srvRead
    ELSE \E st \in env.statuses :
           /\ requests' = [requests EXCEPT ![r].phase = "mark",
                                           ![r].todo = todo,
                                           ![r].status = st]
           /\ srvRead' = SrvMark(todo[1].id, st)

\* fetchMessagesDone with a catch block that closes the open conversation
fetchMessagesDone_ClosesOnFailure(r) ==
  LET p == requests[r].peer
      existingConv == findConv(conversations, p)
  IN
  /\ requests[r].kind = "fetchMessages"
  /\ requests[r].phase = "fetch"
  /\ IF requests[r].status = 200
       THEN /\ messages' = requests[r].data
            /\ currentConversation' =
                 openedConversation(conversations, p, requests[r].user)
            /\ loading' = FALSE
            /\ selected' = IF r = selected.req
                             THEN [selected EXCEPT !.applied = TRUE]
                             ELSE selected
            /\ IF existingConv # NoConv /\ existingConv.unreadCount # 0
                 THEN /\ conversations' = resetUnread(conversations, p)
                      /\ markNext(r, unreadMessages(requests[r].data, p))
                 ELSE /\ requests' = Drop(r)
                      /\ UNCHANGED <<conversations, srvRead>>
            /\ UNCHANGED <<error, logoutPending>>
       ELSE /\ error' = handleAxiosError(requests[r])
            /\ loading' = FALSE
            /\ logoutPending' = logoutPending + LogoutsOn(requests[r])
            /\ requests' = Drop(r)
            /\ messages' = <<>>
            /\ currentConversation' = NoConv
            /\ UNCHANGED <<conversations, srvRead, selected>>
  /\ last' = Ran("fetchMessagesDone", p, 0, r,
                 IF requests[r].status # 200
                   THEN handleAxiosError(requests[r])
                   ELSE IF r \in DOMAIN requests' THEN Pending ELSE Resolved)
  /\ UNCHANGED <<isAuthenticated, user, socket, onlineUsers, chanVars,
                 nextReq, created, env, markCount>>

\* fetchMessages, after the await of the GET
fetchMessagesDone(r) ==
  LET p == requests[r].peer
      existingConv == findConv(conversations, p)
  IN
  /\ requests[r].kind = "fetchMessages"
  /\ requests[r].phase = "fetch"
  /\ IF requests[r].status = 200
       THEN /\ messages' = requests[r].data
            /\ currentConversation' =
                 openedConversation(conversations, p, requests[r].user)
            /\ loading' = FALSE
            /\ selected' = IF r = selected.req
                             THEN [selected EXCEPT !.applied = TRUE]
                             ELSE selected
            /\ IF existingConv # NoConv /\ existingConv.unreadCount # 0
                 THEN /\ conversations' = resetUnread(conversations, p)
                      /\ markNext(r, unreadMessages(requests[r].data, p))
                 ELSE /\ requests' = Drop(r)
                      /\ UNCHANGED <<conversations, srvRead>>
            /\ UNCHANGED <<error, logoutPending>>
       ELSE /\ error' = handleAxiosError(requests[r])
            /\ loading' = FALSE
            /\ logoutPending' = logoutPending + LogoutsOn(requests[r])
            /\ requests' = Drop(r)
            /\ UNCHANGED <<conversations, currentConversation, messages,
                           srvRead, selected>>
  /\ last' = Ran("fetchMessagesDone", p, 0, r,
                 IF requests[r].status # 200
                   THEN handleAxiosError(requests[r])
                   ELSE IF r \in DOMAIN requests' THEN Pending ELSE Resolved)
  /\ UNCHANGED <<isAuthenticated, user, socket, onlineUsers, chanVars,
                 nextReq, created, env, markCount>>

\* fetchMessagesMark with a markMessageAsRead that surfaces its failure
fetchMessagesMark_SetsError(r) ==
  LET m == requests[r].todo[1]
  IN
  /\ requests[r].kind = "fetchMessages"
  /\ requests[r].phase = "mark"
  /\ IF requests[r].status = 200
       THEN /\ messages' = markRead(messages, m.id)
            /\ markCount' = Marked(m.id)
            /\ UNCHANGED <<logoutPending, error>>
       ELSE /\ logoutPending' = logoutPending + LogoutsOn(requests[r])
            /\ error' = handleAxiosError(requests[r])
            /\ UNCHANGED <<messages, markCount>>
  /\ markNext(r, Tail(requests[r].todo))
  /\ last' = Ran("fetchMessagesMark", requests[r].peer, m.id, r,
                 IF r \in DOMAIN requests' THEN Pending ELSE Resolved)
  /\ UNCHANGED <<isAuthenticated, user, socket, conversations,
                 currentConversation, onlineUsers, loading, chanVars,
                 nextReq, created, selected, env>>

\* fetchMessagesMark whose loop ends at the first call that fails
fetchMessagesMark_Aborts(r) ==
  LET m == requests[r].todo[1]
  IN
  /\ requests[r].kind = "fetchMessages"
  /\ requests[r].phase = "mark"
  /\ IF requests[r].status = 200
       THEN /\ messages' = markRead(messages, m.id)
            /\ markCount' = Marked(m.id)
            /\ markNext(r, Tail(requests[r].todo))
            /\ UNCHANGED logoutPending
       ELSE /\ logoutPending' = logoutPending + LogoutsOn(requests[r])
            /\ requests' = Drop(r)
            /\ UNCHANGED <<messages, markCount, srvRead>>
  /\ last' = Ran("fetchMessagesMark", requests[r].peer, m.id, r,
                 IF r \in DOMAIN requests' THEN Pending ELSE Resolved)
  /\ UNCHANGED <<isAuthenticated, user, socket, conversations,
                 currentConversation, onlineUsers, loading, error, chanVars,
                 nextReq, created, selected, env>>

\* fetchMessages, after the await of one markMessageAsRead of its loop
fetchMessagesMark(r) ==
  LET m == requests[r].todo[1]
  IN
  /\ requests[r].kind = "fetchMessages"
  /\ requests[r].phase = "mark"
  /\ IF requests[r].status = 200
       THEN /\ messages' = markRead(messages, m.id)
            /\ markCount' = Marked(m.id)
            /\ UNCHANGED logoutPending
       ELSE /\ logoutPending' = logoutPending + LogoutsOn(requests[r])
            /\ UNCHANGED <<messages, markCount>>
  /\ markNext(r, Tail(requests[r].todo))
  /\ last' = Ran("fetchMessagesMark", requests[r].peer, m.id, r,
                 IF r \in DOMAIN requests' THEN Pending ELSE Resolved)
  /\ UNCHANGED <<isAuthenticated, user, socket, conversations,
                 currentConversation, onlineUsers, loading, error, chanVars,
                 nextReq, created, selected, env>>

\* sendMessage inserting the message into the open conversation before the
\* server has confirmed it
sendMessage_Optimistic(p) ==
  /\ nextReq <= env.maxReq
  /\ IF ~isAuthenticated
       THEN /\ last' = Ran("sendMessage", p, 0, 0,
                           createChatError("auth", NoCode))
            /\ UNCHANGED <<reqVars, created, messages>>
       ELSE /\ last' = Ran("sendMessage", p, 0, 0, NoError)
            /\ nextReq' = nextReq + 1
            /\ messages' =
                 IF currentConversation # NoConv
                    /\ currentConversation.user.id = p
                   THEN Append(messages, Msg(Len(created) + 1, Me, p, FALSE))
                   ELSE messages
            /\ \E st \in env.statuses :
                 IF st = 200
                   THEN /\ Len(created) < env.maxMsg
                        /\ created' = Append(created,
                             [senderId |-> Me, receiverId |-> p])
                        /\ requests' = Issue(Req("sendMessage", p, 0, st,
                             Msg(Len(created) + 1, Me, p, FALSE)))
                   ELSE /\ requests' = Issue(Req("sendMessage", p, 0, st,
                                                 NoMsg))
                        /\ UNCHANGED created
  /\ UNCHANGED <<authVars, socket, conversations, currentConversation,
                 onlineUsers, loading, error, chanVars, srvRead, histVars>>

\* sendMessage(receiverId, content), up to the await; the server creates the
\* message when it answers 200
sendMessage(p) ==
  /\ nextReq <= env.maxReq
  /\ IF ~isAuthenticated
       THEN /\ last' = Ran("sendMessage", p, 0, 0,
                           createChatError("auth", NoCode))
            /\ UNCHANGED <<reqVars, created>>
       ELSE /\ last' = Ran("sendMessage", p, 0, 0, NoError)
            /\ nextReq' = nextReq + 1
            /\ \E st \in env.statuses :
                 IF st = 200
                   THEN /\ Len(created) < env.maxMsg
                        /\ created' = Append(created,
                             [senderId |-> Me, receiverId |-> p])
                        /\ requests' = Issue(Req("sendMessage", p, 0, st,
                             Msg(Len(created) + 1, Me, p, FALSE)))
                   ELSE /\ requests' = Issue(Req("sendMessage", p, 0, st,
                                                 NoMsg))
                        /\ UNCHANGED created
  /\ UNCHANGED <<authVars, chatVars, chanVars, srvRead, histVars>>

\* sendMessage, after the await
sendMessageDone(r) ==
  LET receiverId == requests[r].peer
      message == requests[r].data
  IN
  /\ requests[r].kind = "sendMessage"
  /\ requests' = Drop(r)
  /\ IF requests[r].status = 200
       THEN /\ messages' =
                 IF currentConversation # NoConv
                    /\ currentConversation.user.id = receiverId
                   THEN Append(messages, message)
                   ELSE messages
            /\ conversations' = setLastMessage(conversations, receiverId,
                                               message)
            /\ last' = Ran("sendMessageDone", receiverId, message.id, 0,
                           NoError)
            /\ UNCHANGED <<error, logoutPending>>
       ELSE /\ error' = handleAxiosError(requests[r])
            /\ logoutPending' = logoutPending + LogoutsOn(requests[r])
            /\ last' = Ran("sendMessageDone", receiverId, 0, 0,
                           handleAxiosError(requests[r]))
            /\ UNCHANGED <<messages, conversations>>
  /\ UNCHANGED <<isAuthenticated, user, socket, currentConversation,
                 onlineUsers, loading, chanVars, nextReq, srvVars, histVars>>

\* markMessageAsRead, after the await (called from the newMessage handler)
markMessageAsReadDone(r) ==
  /\ requests[r].kind = "markRead"
  /\ requests' = Drop(r)
  /\ last' = Ran("markMessageAsReadDone", NoUser, requests[r].msg, 0, NoError)
  /\ IF requests[r].status = 200
       THEN /\ messages' = markRead(messages, requests[r].msg)
            /\ markCount' = Marked(requests[r].msg)
            /\ UNCHANGED logoutPending
       ELSE /\ logoutPending' = logoutPending + LogoutsOn(requests[r])
            /\ UNCHANGED <<messages, markCount>>
  /\ UNCHANGED <<isAuthenticated, user, socket, conversations,
                 currentConversation, onlineUsers, loading, error, chanVars,
                 nextReq, srvVars, selected, env>>

\* a peer sends the user a message: the server creates it
peerSends(p) ==
  /\ Len(created) < env.maxMsg
  /\ created' = Append(created, [senderId |-> p, receiverId |-> Me])
  /\ last' = Ran("peerSends", p, Len(created) + 1, 0, NoError)
  /\ UNCHANGED <<authVars, chatVars, chanVars, reqVars, srvRead, histVars>>

\* a newMessage handler that sends a read receipt for every message of a
\* peer, open or not
onNewMessage_MarksUnopened(c, i) ==
  LET message == Msg(i, created[i].senderId, created[i].receiverId, FALSE)
      inCurrent == currentConversation # NoConv
                   /\ Involves(message, currentConversation.user.id)
      marks == message.senderId # Me /\ isAuthenticated
  IN
  /\ channels[c] = "connected"
  /\ i \notin pushed[c]
  /\ pushed' = [pushed EXCEPT ![c] = @ \cup {i}]
  /\ last' = Ran("newMessage", NoUser, i, c, NoError)
  /\ messages' = appendIncoming(messages, currentConversation, message)
  /\ IF marks
       THEN /\ nextReq <= env.maxReq
            /\ nextReq' = nextReq + 1
            /\ \E st \in env.statuses :
                 /\ requests' = Issue(Req("markRead", NoUser, i, st, NoMsg))
                 /\ srvRead' = SrvMark(i, st)
       ELSE UNCHANGED <<reqVars, srvRead>>
  /\ conversations' = IF user = NoUser THEN conversations
                      ELSE applyIncomingMessage(conversations, message, user)
  /\ selected' =
       IF /\ selected.req \in DOMAIN requests
          /\ requests[selected.req].phase = "fetch"
          /\ Involves(message, selected.peer)
         THEN [selected EXCEPT !.during = @ \cup {i}]
         ELSE selected
  /\ UNCHANGED <<authVars, socket, currentConversation, onlineUsers, loading,
                 error, channels, created, env, markCount>>

\* socket.on("newMessage") of channel c: the server pushes message i, which
\* it does once per channel
onNewMessage(c, i) ==
  LET message == Msg(i, created[i].senderId, created[i].receiverId, FALSE)
      inCurrent == currentConversation # NoConv
                   /\ Involves(message, currentConversation.user.id)
      marks == inCurrent /\ message.senderId = currentConversation.user.id
                         /\ isAuthenticated
  IN
  /\ channels[c] = "connected"
  /\ i \notin pushed[c]
  /\ pushed' = [pushed EXCEPT ![c] = @ \cup {i}]
  /\ last' = Ran("newMessage", NoUser, i, c, NoError)
  /\ messages' = appendIncoming(messages, currentConversation, message)
  /\ IF marks
       THEN /\ nextReq <= env.maxReq
            /\ nextReq' = nextReq + 1
            /\ \E st \in env.statuses :
                 /\ requests' = Issue(Req("markRead", NoUser, i, st, NoMsg))
                 /\ srvRead' = SrvMark(i, st)
       ELSE UNCHANGED <<reqVars, srvRead>>
  /\ conversations' = IF user = NoUser THEN conversations
                      ELSE applyIncomingMessage(conversations, message, user)
  /\ selected' =
       IF /\ selected.req \in DOMAIN requests
          /\ requests[selected.req].phase = "fetch"
          /\ Involves(message, selected.peer)
         THEN [selected EXCEPT !.during = @ \cup {i}]
         ELSE selected
  /\ UNCHANGED <<authVars, socket, currentConversation, onlineUsers, loading,
                 error, channels, created, env, markCount>>

\* ------------------------------------------------------------- the channel
Chans == 1..MaxChan

OnlineLists == {<<>>, <<"u1">>, <<"u2">>, <<"u1", "u2">>, <<"u2", "u1">>}

\* a filter that removes nobody
without_KeepsAll(list, u) == list

\* state.onlineUsers.filter(id => id !== userId)
without(list, u) == SelectSeq(list, LAMBDA x : x # u)

\* connectSocket(): io() makes a new channel and the handlers are registered
\* on it; io() may throw
connectSocket ==
  /\ last' = Ran("connectSocket", NoUser, 0, 0, NoError)
  /\ IF ~isAuthenticated
       THEN UNCHANGED <<socket, error, channels>>
       ELSE \/ \E c \in Chans :
                 /\ channels[c] = "none"
                 /\ \A d \in Chans : d < c => channels[d] # "none"
                 /\ channels' = [channels EXCEPT ![c] = "connecting"]
                 /\ socket' = c
                 /\ UNCHANGED error
            \/ /\ env.ioThrows
               /\ \E thrown \in Payloads : error' = handleSocketError(thrown)
               /\ socket' = NoSocket
               /\ UNCHANGED channels
  /\ UNCHANGED <<authVars, conversations, currentConversation, messages,
                 onlineUsers, loading, pushed, reqVars, srvVars, histVars>>

\* disconnectSocket()
disconnectSocket ==
  /\ last' = Ran("disconnectSocket", NoUser, 0, 0, NoError)
  /\ IF socket # NoSocket
       THEN /\ channels' = [channels EXCEPT ![socket] = "closed"]
            /\ socket' = NoSocket
            /\ onlineUsers' = <<>>
       ELSE UNCHANGED <<channels, socket, onlineUsers>>
  /\ UNCHANGED <<authVars, conversations, currentConversation, messages,
                 loading, error, pushed, reqVars, srvVars, histVars>>

\* socket.on("connect")
onConnect(c) ==
  /\ channels[c] \in {"connecting", "disconnected"}
  /\ channels' = [channels EXCEPT ![c] = "connected"]
  /\ error' = NoError
  /\ last' = Ran("connect", NoUser, 0, c, NoError)
  /\ UNCHANGED <<authVars, socket, conversations, currentConversation,
                 messages, onlineUsers, loading, pushed, reqVars, srvVars,
                 histVars>>

\* socket.on("userStatus")
onUserStatus(c, userId, status) ==
  /\ channels[c] = "connected"
  /\ onlineUsers' = IF status = "online"
                      THEN Append(without(onlineUsers, userId), userId)
                      ELSE without(onlineUsers, userId)
  /\ last' = Ran("userStatus", userId, 0, c, [type |-> status, code |-> 0])
  /\ UNCHANGED <<authVars, socket, conversations, currentConversation,
                 messages, loading, error, chanVars, reqVars, srvVars,
                 histVars>>

\* socket.on("userStatus") of the second store in useChatStore.ts (the one
\* that reads a token from the auth store)
onUserStatusB(c, userId, status) ==
  /\ channels[c] = "connected"
  /\ Len(onlineUsers) < MaxOnline
  /\ onlineUsers' = IF status = "online"
                      THEN Append(onlineUsers, userId)
                      ELSE without(onlineUsers, userId)
  /\ last' = Ran("userStatus", userId, 0, c, [type |-> status, code |-> 0])
  /\ UNCHANGED <<authVars, socket, conversations, currentConversation,
                 messages, loading, error, chanVars, reqVars, srvVars,
                 histVars>>

\* socket.on("onlineUsers")
onOnlineUsers(c, users) ==
  /\ channels[c] = "connected"
  /\ onlineUsers' = users
  /\ last' = Ran("onlineUsers", NoUser, 0, c, NoError)
  /\ UNCHANGED <<authVars, socket, conversations, currentConversation,
                 messages, loading, error, chanVars, reqVars, srvVars,
                 histVars>>

\* socket.on("error")
onError(c, payload) ==
  /\ channels[c] = "connected"
  /\ error' = handleSocketError(payload)
  /\ last' = Ran("error", NoUser, 0, c, NoError)
  /\ UNCHANGED <<authVars, socket, conversations, currentConversation,
                 messages, onlineUsers, loading, chanVars, reqVars, srvVars,
                 histVars>>

\* the disconnect handler reconnecting whatever the reason
reconnectsOn_AnyReason(reason) == 1

\* socket.connect() calls the disconnect handler makes for a reason
reconnectsOn(reason) == IF reason = "io server disconnect" THEN 1 ELSE 0

\* socket.on("disconnect"): the handler reconnects after a server disconnect
onDisconnect(c, reason) ==
  /\ channels[c] = "connected"
  /\ channels' = [channels EXCEPT ![c] =
                    IF reconnectsOn(reason) > 0 THEN "connecting"
                    ELSE "disconnected"]
  /\ last' = Ran("disconnect", NoUser, 0, c,
                 [type |-> reason, code |-> reconnectsOn(reason)])
  /\ UNCHANGED <<authVars, chatVars, pushed, reqVars, srvVars, histVars>>

\* a connect_error handler that keeps the store's reference to the channel
onConnectError_KeepsSocket(c, payload) ==
  /\ channels[c] \in {"connecting", "disconnected"}
  /\ error' = handleSocketError(payload)
  /\ last' = Ran("connect_error", NoUser, 0, c, NoError)
  /\ UNCHANGED <<authVars, socket, conversations, currentConversation,
                 messages, onlineUsers, loading, chanVars, reqVars, srvVars,
                 histVars>>

\* socket.on("connect_error"): a connection attempt of channel c failed
onConnectError(c, payload) ==
  /\ channels[c] \in {"connecting", "disconnected"}
  /\ error' = handleSocketError(payload)
  /\ socket' = NoSocket
  /\ last' = Ran("connect_error", NoUser, 0, c, NoError)
  /\ UNCHANGED <<authVars, conversations, currentConversation, messages,
                 onlineUsers, loading, chanVars, reqVars, srvVars, histVars>>

\* the typing users the store holds: ChatState declares no typingUsers, the
\* store's initial state has none and no handler writes one
typingUsers == {}

\* a typing event of channel c: connectSocket registers no listener for it,
\* so the event is dropped
onTyping(c, userId, isTyping) ==
  /\ channels[c] = "connected"
  /\ last' = Ran("typing", userId, 0, c,
                 [type |-> IF isTyping THEN "typing" ELSE "idle", code |-> 0])
  /\ UNCHANGED <<authVars, chatVars, chanVars, reqVars, srvVars, histVars>>

\* ------------------------------------------------------------- specifications
\* the store as constructed
Init ==
  /\ isAuthenticated = FALSE
  /\ user = NoUser
  /\ logoutPending = 0
  /\ socket = NoSocket
  /\ conversations = <<>>
  /\ currentConversation = NoConv
  /\ messages = <<>>
  /\ onlineUsers = <<>>
  /\ loading = FALSE
  /\ error = NoError
  /\ channels = [c \in Chans |-> "none"]
  /\ pushed = [c \in Chans |-> {}]
  /\ requests = <<>>
  /\ nextReq = 1
  /\ created = <<>>
  /\ srvRead = {}
  /\ env = [statuses |-> Statuses, maxReq |-> MaxReq, maxMsg |-> MaxMsg,
            ioThrows |-> FALSE,
            embedsUser |-> {TRUE}]
  /\ selected = NoSelection
  /\ markCount = <<>>
  /\ last = Ran("init", NoUser, 0, 0, NoError)

\* the chat page mounted: the user is logged in and one channel is connected
Mounted(e) ==
  /\ isAuthenticated = TRUE
  /\ user = Me
  /\ logoutPending = 0
  /\ socket = 1
  /\ conversations = <<>>
  /\ currentConversation = NoConv
  /\ messages = <<>>
  /\ onlineUsers = <<>>
  /\ loading = FALSE
  /\ error = NoError
  /\ channels = [c \in Chans |-> IF c = 1 THEN "connected" ELSE "none"]
  /\ pushed = [c \in Chans |-> {}]
  /\ requests = <<>>
  /\ nextReq = 1
  /\ created = <<>>
  /\ srvRead = {}
  /\ env = e
  /\ selected = NoSelection
  /\ markCount = <<>>
  /\ last = Ran("init", NoUser, 0, 0, NoError)

InitLog ==
  Mounted([statuses |-> {200, 500}, maxReq |-> MaxReq, maxMsg |-> MaxMsg,
           ioThrows |-> FALSE,
           embedsUser |-> {TRUE}])

\* every REST call succeeds: a failed call leaves the directory untouched
InitPush ==
  Mounted([statuses |-> {200}, maxReq |-> MaxPushReq,
           maxMsg |-> MaxPushMsg, ioThrows |-> FALSE,
           embedsUser |-> {TRUE}])

\* message log and conversation directory
NextLog ==
  \/ \E p \in Peers : peerSends(p)
  \/ fetchConversations
  \/ \E r \in DOMAIN requests : fetchConversationsDone(r)
  \/ \E p \in Peers : fetchMessages(p)
  \/ \E r \in DOMAIN requests : fetchMessagesDone(r)
  \/ \E r \in DOMAIN requests : fetchMessagesMark(r)
  \/ \E p \in Peers : sendMessage(p)
  \/ \E r \in DOMAIN requests : sendMessageDone(r)
  \/ \E r \in DOMAIN requests : markMessageAsReadDone(r)
  \/ \E c \in Chans, i \in 1..Len(created) : onNewMessage(c, i)

SpecLog == InitLog /\ [][NextLog]_vars

\* the same operations within the smaller bounds
SpecPush == InitPush /\ [][NextLog]_vars

\* connection manager and presence
NextConn ==
  \/ login
  \/ logout
  \/ logoutDone
  \/ connectSocket
  \/ disconnectSocket
  \/ \E c \in Chans : onConnect(c)
  \/ \E c \in Chans, u \in Peers, st \in {"online", "offline"} :
       onUserStatus(c, u, st)
  \/ \E c \in Chans, l \in OnlineLists : onOnlineUsers(c, l)
  \/ \E c \in Chans, e \in Payloads : onError(c, e)
  \/ \E c \in Chans, rs \in Reasons : onDisconnect(c, rs)
  \/ \E c \in Chans, e \in Payloads : onConnectError(c, e)

SpecConn == Init /\ [][NextConn]_vars

\* the connection manager receiving typing events
NextTyping ==
  \/ NextConn
  \/ \E c \in Chans, u \in Peers, t \in BOOLEAN : onTyping(c, u, t)

SpecTyping == Init /\ [][NextTyping]_vars

\* the conversation with one peer
OnePeer == {"u1"}

\* two messages, three REST calls, each answered 200 or 500
InitBatch ==
  Mounted([statuses |-> {200, 500}, maxReq |-> MaxBatchReq,
           maxMsg |-> MaxBatchMsg, ioThrows |-> FALSE,
           embedsUser |-> {TRUE}])

\* opening a conversation that holds the peer's and the user's messages
NextBatch ==
  \/ \E p \in OnePeer : peerSends(p)
  \/ \E p \in OnePeer : sendMessage(p)
  \/ \E r \in DOMAIN requests : sendMessageDone(r)
  \/ fetchConversations
  \/ \E r \in DOMAIN requests : fetchConversationsDone(r)
  \/ \E p \in OnePeer : fetchMessages(p)
  \/ \E r \in DOMAIN requests : fetchMessagesDone(r)
  \/ \E r \in DOMAIN requests : fetchMessagesMark(r)

SpecBatch == InitBatch /\ [][NextBatch]_vars

\* one message, two REST calls, each answered 200 or 401; io() can throw
InitAuth ==
  Mounted([statuses |-> {200, 401}, maxReq |-> MaxAuthReq,
           maxMsg |-> MaxAuthMsg, ioThrows |-> TRUE,
           embedsUser |-> {TRUE}])

\* REST calls that can be refused, the logout they cause, and socket errors
NextAuth ==
  \/ \E p \in OnePeer : peerSends(p)
  \/ fetchConversations
  \/ \E r \in DOMAIN requests : fetchConversationsDone(r)
  \/ \E p \in OnePeer : fetchMessages(p)
  \/ \E r \in DOMAIN requests : fetchMessagesDone(r)
  \/ \E r \in DOMAIN requests : fetchMessagesMark(r)
  \/ \E p \in OnePeer : sendMessage(p)
  \/ \E r \in DOMAIN requests : sendMessageDone(r)
  \/ logoutDone
  \/ connectSocket
  \/ \E c \in Chans, e \in Payloads : onError(c, e)
  \/ \E c \in Chans, e \in Payloads : onConnectError(c, e)

SpecAuth == InitAuth /\ [][NextAuth]_vars

\* one message, one REST call, answered 200, refused with 401, 404 or 500, or
\* not answered at all; io() can throw
InitErrors ==
  Mounted([statuses |-> {200, 401, 404, 500, 0}, maxReq |-> MaxErrReq,
           maxMsg |-> MaxErrMsg, ioThrows |-> TRUE,
           embedsUser |-> {TRUE}])

\* the failures the store classifies: of a GET, of a POST, of the channel
NextErrors ==
  \/ fetchConversations
  \/ \E r \in DOMAIN requests : fetchConversationsDone(r)
  \/ \E p \in OnePeer : sendMessage(p)
  \/ \E r \in DOMAIN requests : sendMessageDone(r)
  \/ logoutDone
  \/ connectSocket
  \/ \E c \in Chans, e \in Payloads : onError(c, e)
  \/ \E c \in Chans, e \in Payloads : onConnectError(c, e)

SpecErrors == InitErrors /\ [][NextErrors]_vars

\* two messages, two REST calls, each answered 200, 500 or not at all
InitSend ==
  Mounted([statuses |-> {200, 500, 0}, maxReq |-> MaxSendReq,
           maxMsg |-> MaxSendMsg, ioThrows |-> FALSE,
           embedsUser |-> {TRUE}])

\* the REST methods with no push in between
NextSend ==
  \/ \E p \in Peers : peerSends(p)
  \/ fetchConversations
  \/ \E r \in DOMAIN requests : fetchConversationsDone(r)
  \/ \E p \in Peers : fetchMessages(p)
  \/ \E r \in DOMAIN requests : fetchMessagesDone(r)
  \/ \E r \in DOMAIN requests : fetchMessagesMark(r)
  \/ \E p \in Peers : sendMessage(p)
  \/ \E r \in DOMAIN requests : sendMessageDone(r)

SpecSend == InitSend /\ [][NextSend]_vars

\* two messages of one peer, three REST calls, each answered 200
InitMark ==
  Mounted([statuses |-> {200}, maxReq |-> MaxMarkReq,
           maxMsg |-> MaxMarkMsg, ioThrows |-> FALSE,
           embedsUser |-> {TRUE}])

\* a peer's messages arriving over REST and push, and their read receipts
NextMark ==
  \/ \E p \in OnePeer : peerSends(p)
  \/ fetchConversations
  \/ \E r \in DOMAIN requests : fetchConversationsDone(r)
  \/ \E p \in OnePeer : fetchMessages(p)
  \/ \E r \in DOMAIN requests : fetchMessagesDone(r)
  \/ \E r \in DOMAIN requests : fetchMessagesMark(r)
  \/ \E r \in DOMAIN requests : markMessageAsReadDone(r)
  \/ \E c \in Chans, i \in 1..Len(created) : onNewMessage(c, i)

SpecMark == InitMark /\ [][NextMark]_vars

\* one message, two REST calls, each answered 200, 500 or not at all
InitLive ==
  Mounted([statuses |-> {200, 500, 0}, maxReq |-> MaxAuthReq,
           maxMsg |-> MaxAuthMsg, ioThrows |-> FALSE,
           embedsUser |-> {TRUE}])

\* the two fetches
NextLive ==
  \/ \E p \in Peers : peerSends(p)
  \/ fetchConversations
  \/ \E r \in DOMAIN requests : fetchConversationsDone(r)
  \/ \E p \in Peers : fetchMessages(p)
  \/ \E r \in DOMAIN requests : fetchMessagesDone(r)
  \/ \E r \in DOMAIN requests : fetchMessagesMark(r)

\* every GET is answered or fails
SpecLive ==
  /\ InitLive
  /\ [][NextLive]_vars
  /\ WF_vars(\E r \in DOMAIN requests : fetchConversationsDone(r))
  /\ WF_vars(\E r \in DOMAIN requests : fetchMessagesDone(r))

\* one message, two REST calls, each answered 200, the GET of a peer's
\* messages with or without the peer embedded
InitOpen ==
  Mounted([statuses |-> {200}, maxReq |-> MaxAuthReq,
           maxMsg |-> MaxAuthMsg, ioThrows |-> FALSE,
           embedsUser |-> {TRUE, FALSE}])

SpecOpen == InitOpen /\ [][NextLive]_vars

\* one message, two REST calls, each answered 200
InitSession ==
  Mounted([statuses |-> {200}, maxReq |-> MaxAuthReq,
           maxMsg |-> MaxAuthMsg, ioThrows |-> FALSE,
           embedsUser |-> {TRUE}])

\* a session that loads data, ends with logout() and the effect cleanups'
\* disconnectSocket(), and is followed by the next login
NextSession ==
  \/ \E p \in Peers : peerSends(p)
  \/ fetchConversations
  \/ \E r \in DOMAIN requests : fetchConversationsDone(r)
  \/ \E p \in Peers : fetchMessages(p)
  \/ \E r \in DOMAIN requests : fetchMessagesDone(r)
  \/ \E r \in DOMAIN requests : fetchMessagesMark(r)
  \/ \E c \in Chans, l \in OnlineLists : onOnlineUsers(c, l)
  \/ logout
  \/ logoutDone
  \/ disconnectSocket
  \/ login
  \/ connectSocket
  \/ \E c \in Chans : onConnect(c)

SpecSession == InitSession /\ [][NextSession]_vars

\* presence events handled by the second store, on a connected channel
NextPresenceB ==
  \/ \E c \in Chans, u \in Peers, st \in {"online", "offline"} :
       onUserStatusB(c, u, st)
  \/ \E c \in Chans, l \in OnlineLists : onOnlineUsers(c, l)

SpecPresenceB == InitPush /\ [][NextPresenceB]_vars

\* ------------------------------------------------------------- claims
NoDuplicates(msgs) == \A i, j \in DOMAIN msgs : msgs[i].id = msgs[j].id => i = j

\* C1: once the response of the latest fetchMessages call has been applied,
\* the open conversation is that call's peer and every message shown belongs
\* to it, whatever older response resolves afterwards.
C1_StalenessGuard ==
  selected.applied =>
    /\ currentConversation.user.id = selected.peer
    /\ \A i \in DOMAIN messages : Involves(messages[i], selected.peer)

\* C2: after a newMessage push has been handled, the message sequence holds
\* every id once, also when the pushed id was already loaded over REST.
C2_PushDedup ==
  last.op = "newMessage" => NoDuplicates(messages)

\* C3: a message the user sent is never twice in the message sequence,
\* whether it came by the sendMessage response, its push echo or a snapshot.
C3_NoDuplicateOfSent ==
  \A i, j \in DOMAIN messages :
    (messages[i].senderId = Me /\ messages[i].id = messages[j].id) => i = j

\* C4: when the response of fetchMessages(P) has been applied, every message
\* of P that was pushed while the GET was in flight is in the message
\* sequence.
C4_PushDuringFetchKept ==
  (last.op = "fetchMessagesDone" /\ last.chan = selected.req
   /\ selected.applied)
    => selected.during \subseteq Ids(messages)

\* C5: when a successful fetchMessages(P) resolves, the entry of P in the
\* directory has unreadCount 0.
C5_UnreadZeroWhenResolved ==
  (last.op \in {"fetchMessagesDone", "fetchMessagesMark"}
   /\ last.result = Resolved
   /\ findConv(conversations, last.peer) # NoConv)
    => findConv(conversations, last.peer).unreadCount = 0

\* C6: a pushed message changes no unreadCount when the user wrote it, and
\* does not change the unreadCount of the conversation that is open.
C6_UnreadOnlyWhenNotOpen ==
  [][last'.op = "newMessage" =>
       \A k \in DOMAIN conversations :
         (\/ created[last'.msg].senderId = Me
          \/ /\ currentConversation # NoConv
             /\ conversations[k].user.id = currentConversation.user.id)
           => conversations'[k].unreadCount = conversations[k].unreadCount
    ]_vars

\* C7: a pushed message m updates the directory entry of its other
\* participant, when that entry exists and is not open, to lastMessage = m
\* and unreadCount + 1 if the peer wrote m, unreadCount if the user did;
\* every other entry stays as it was.
C7_PushUpdatesDirectory ==
  [][(last'.op = "newMessage" /\ user # NoUser) =>
       LET i == last'.msg
           m == Msg(i, created[i].senderId, created[i].receiverId, FALSE)
           other == IF m.senderId = user THEN m.receiverId ELSE m.senderId
           open == currentConversation # NoConv
                   /\ currentConversation.user.id = other
       IN /\ DOMAIN conversations' = DOMAIN conversations
          /\ \A k \in DOMAIN conversations :
               IF conversations[k].user.id = other
                 THEN open \/ conversations'[k] =
                        [conversations[k] EXCEPT
                           !.lastMessage = m,
                           !.unreadCount =
                              IF m.senderId = user THEN @ ELSE @ + 1]
                 ELSE conversations'[k] = conversations[k]
    ]_vars

\* a peer's message was pushed while another conversation was open: its
\* entry shows it as last message and counts it, next to a second entry
C7_Witness ==
  /\ last.op = "newMessage"
  /\ Len(conversations) = 2
  /\ currentConversation # NoConv
  /\ \E k \in DOMAIN conversations :
       /\ conversations[k].user.id # currentConversation.user.id
       /\ conversations[k].lastMessage.id = last.msg
       /\ conversations[k].lastMessage.senderId = conversations[k].user.id
       /\ conversations[k].unreadCount >= 1

\* channels on which the handlers of connectSocket still receive events
LiveChannels == {c \in Chans : channels[c] \notin {"none", "closed"}}

\* C8: connectSocket() opens a channel only for an authenticated user, and
\* however often it is called, at most one channel with handlers exists.
C8_ConnectIdempotent ==
  [][last'.op = "connectSocket" =>
       /\ (~isAuthenticated => channels' = channels)
       /\ Cardinality(LiveChannels') <= 1
    ]_vars

\* C9: while no channel is connected, onlineUsers is empty.
C9_OnlineEmptyWhenDisconnected ==
  (\A c \in Chans : channels[c] # "connected") => onlineUsers = <<>>

\* C10: after disconnectSocket(), onlineUsers is empty and socket is null,
\* also when the socket reference was already null.
C10_DisconnectClears ==
  last.op = "disconnectSocket" => (onlineUsers = <<>> /\ socket = NoSocket)

Answered(r) ==
  r \in DOMAIN requests
  /\ (r \notin DOMAIN requests' \/ requests'[r] # requests[r])

\* C12: when POST /chat/messages answers 401, sendMessage rejects with an
\* auth error and logout() is invoked exactly once for that failure, the
\* response interceptor's invocation included.
C12_LogoutOnceOn401 ==
  [][(last'.op = "sendMessageDone" /\ last'.result.type = "auth") =>
       logoutPending' = logoutPending + 1
    ]_vars

\* C13: handling a 401 response of any REST call invokes logout(); a socket
\* error event, a connect_error event and a connectSocket() whose io() throws
\* invoke no logout() and leave the user authenticated.
C13_LogoutOnAuthNotOnSocket ==
  [][/\ \A r \in DOMAIN requests :
          (Answered(r) /\ requests[r].status = 401)
            => logoutPending' > logoutPending
     /\ last'.op \in {"error", "connect_error", "connectSocket"}
          => /\ logoutPending' = logoutPending
             /\ isAuthenticated' = isAuthenticated
    ]_vars

\* fetchConversations was refused with 401 and logout() is under way
C13_Witness ==
  /\ last.op = "fetchConversationsDone"
  /\ error = createChatError("auth", 401)
  /\ logoutPending > 0

\* request r is a markMessageAsRead call
IsMarkRead(r) ==
  \/ requests[r].kind = "markRead"
  \/ requests[r].kind = "fetchMessages" /\ requests[r].phase = "mark"

\* C17: when a markMessageAsRead call fails, its caller goes on (nothing is
\* rejected), error and messages stay as they were, and after a 401
\* logout() is invoked.
C17_MarkReadFailureSwallowed ==
  [][\A r \in DOMAIN requests :
       (Answered(r) /\ IsMarkRead(r) /\ requests[r].status # 200) =>
         /\ error' = error
         /\ messages' = messages
         /\ last'.result \in {NoError, Pending, Resolved}
         /\ requests[r].status = 401 => logoutPending' > logoutPending
    ]_vars

\* the mark-read call of fetchMessages' loop was refused with 401: the
\* message is still unread, no error is shown, logout() is under way
C17_Witness ==
  /\ last.op = "fetchMessagesMark"
  /\ \E i \in DOMAIN messages :
       messages[i].id = last.msg /\ ~messages[i].read
  /\ error = NoError
  /\ logoutPending > 0

C15_SendSuccessEffects ==
  [][\A r \in DOMAIN requests :
       (Answered(r) /\ requests[r].kind = "sendMessage"
        /\ requests[r].status = 200) =>
         LET m == requests[r].data
             p == requests[r].peer
             open == currentConversation # NoConv
                     /\ currentConversation.user.id = p
         IN /\ last'.result = NoError
            /\ messages' = IF open THEN Append(messages, m) ELSE messages
            /\ DOMAIN conversations' = DOMAIN conversations
            /\ \A k \in DOMAIN conversations :
                 conversations'[k] =
                   IF conversations[k].user.id = p
                     THEN [conversations[k] EXCEPT !.lastMessage = m]
                     ELSE conversations[k]
    ]_vars

\* a sent message has become the last message of its receiver's entry, which
\* still counts an unread message of the peer
C15_Witness ==
  /\ last.op = "sendMessageDone"
  /\ last.result = NoError
  /\ \E k \in DOMAIN conversations :
       /\ conversations[k].user.id = last.peer
       /\ conversations[k].lastMessage.id = last.msg
       /\ conversations[k].lastMessage.senderId = Me
       /\ conversations[k].unreadCount >= 1

\* the message id of markMessageAsRead call r
MarkedId(r) ==
  IF requests[r].kind = "markRead" THEN requests[r].msg
  ELSE requests[r].todo[1].id

\* C16: applying a 200 response of markMessageAsRead(id) raises no error,
\* leaves every message with that id read and every other message, the
\* directory and the open conversation as they were; when the message was
\* already read (a second call) the message sequence does not change at all.
C16_MarkReadIdempotent ==
  [][\A r \in DOMAIN requests :
       (Answered(r) /\ IsMarkRead(r) /\ requests[r].status = 200) =>
         LET id == MarkedId(r)
         IN /\ error' = error
            /\ last'.result \in {NoError, Pending, Resolved}
            /\ DOMAIN messages' = DOMAIN messages
            /\ \A i \in DOMAIN messages :
                 IF messages[i].id = id
                   THEN messages'[i] = [messages[i] EXCEPT !.read = TRUE]
                   ELSE messages'[i] = messages[i]
            /\ (\A i \in DOMAIN messages :
                  messages[i].id = id => messages[i].read)
                 => messages' = messages
            /\ conversations' = conversations
            /\ currentConversation' = currentConversation
    ]_vars

\* the second 200 response of markMessageAsRead for one message has been
\* applied: the message is shown, read, next to another message
C16_Witness ==
  /\ last.op \in {"markMessageAsReadDone", "fetchMessagesMark"}
  /\ last.msg \in DOMAIN markCount
  /\ markCount[last.msg] >= 2
  /\ \E i, j \in DOMAIN messages :
       /\ messages[i].id = last.msg
       /\ messages[i].read
       /\ messages[j].id # last.msg

\* GET requests of fetchConversations and fetchMessages not yet answered
FetchesInFlight ==
  {r \in DOMAIN requests :
     requests[r].kind \in {"fetchConversations", "fetchMessages"}
     /\ requests[r].phase = "fetch"}

\* C18: loading is true after a fetch has been called, it is false whenever
\* no GET of a fetch is in flight, and since every GET is answered or fails,
\* a loading that is true becomes false.
C18_NoStuckLoading ==
  /\ [][last'.op \in {"fetchConversations", "fetchMessages"}
          /\ requests' # requests => loading']_vars
  /\ [](FetchesInFlight = {} => ~loading)
  /\ (loading ~> ~loading)

\* a fetch has failed, nothing is in flight and loading is false
C18_Witness ==
  /\ last.op \in {"fetchConversationsDone", "fetchMessagesDone"}
  /\ error.type \in {"server", "network"}
  /\ FetchesInFlight = {}
  /\ ~loading

\* nothing of a session is in the store
StoreEmpty ==
  /\ conversations = <<>>
  /\ messages = <<>>
  /\ currentConversation = NoConv
  /\ onlineUsers = <<>>

\* C19: when logout() has completed and the disconnectSocket() of the UI has
\* run, conversations, messages, currentConversation and onlineUsers are
\* empty, and they are still empty when the next login follows.
C19_SessionWiped ==
  [][/\ (last.op = "logoutDone" /\ last'.op = "disconnectSocket")
          => StoreEmpty'
     /\ (last.op = "disconnectSocket" /\ ~isAuthenticated
         /\ last'.op = "login")
          => StoreEmpty'
    ]_vars

\* no user id is twice in the list
NoDuplicateIds(list) == \A i, j \in DOMAIN list : list[i] = list[j] => i = j

\* C20: an onlineUsers(list) event makes list the online users; a
\* userStatus(u, "online") event makes isUserOnline(u) true, a
\* userStatus(u, "offline") event makes it false, and neither changes
\* whether any other user is online.
C20_PresenceReducer ==
  [][/\ \A c \in Chans, l \in OnlineLists :
          onOnlineUsers(c, l) =>
            \A v \in Users : isUserOnline(v)' = (v \in Range(l))
     /\ \A c \in Chans, u \in Peers, st \in {"online", "offline"} :
          onUserStatus(c, u, st) =>
            /\ isUserOnline(u)' = (st = "online")
            /\ \A v \in Users \ {u} : isUserOnline(v)' = isUserOnline(v)
    ]_vars

\* u2 has just gone offline while u1 is online
C20_Witness ==
  /\ last.op = "userStatus"
  /\ last.peer = "u2"
  /\ isUserOnline("u1")
  /\ ~isUserOnline("u2")

\* C21: a userStatus event leaves a duplicate-free onlineUsers duplicate-free;
\* repeated right after the same event it changes nothing; and an offline
\* event for a user who is not online changes nothing.
C21_UserStatusIdempotent ==
  [][last'.op = "userStatus" =>
       /\ NoDuplicateIds(onlineUsers) => NoDuplicateIds(onlineUsers')
       /\ (last.op = "userStatus" /\ last.peer = last'.peer
           /\ last.result = last'.result)
            => onlineUsers' = onlineUsers
       /\ (last'.result.type = "offline"
           /\ last'.peer \notin Range(onlineUsers))
            => onlineUsers' = onlineUsers
    ]_vars

\* the user of the entry the claim expects for a peer outside the directory
FallbackUser(r) ==
  IF requests[r].user = Undefined
    THEN [id |-> requests[r].peer, username |-> "Unknown"]
    ELSE requests[r].user

\* C22: when the GET of fetchMessages(peerId) succeeds, messages becomes the
\* fetched sequence and the open conversation becomes the directory entry of
\* that peer or, without one, a new entry with the synthesized id, no unread
\* messages and the user the response embeds, or the user named "Unknown"
\* with id peerId when it embeds none.
C22_FetchMessagesOpens ==
  [][\A r \in DOMAIN requests :
       (Answered(r) /\ requests[r].kind = "fetchMessages"
        /\ requests[r].phase = "fetch" /\ requests[r].status = 200)
         => /\ messages' = requests[r].data
            /\ currentConversation' =
                 IF findConv(conversations, requests[r].peer) # NoConv
                   THEN findConv(conversations, requests[r].peer)
                   ELSE [id |-> [kind |-> "conv", peer |-> requests[r].peer],
                         user |-> FallbackUser(r),
                         lastMessage |-> NoMsg, unreadCount |-> 0]
    ]_vars

\* C23: the response of a fetchConversations() call that succeeds replaces
\* the whole directory with its snapshot, whatever the directory held and
\* whichever calls are still in flight; so after several calls the directory
\* is the snapshot of the response that resolved last.
C23_LastSnapshotWins ==
  [][\A r \in DOMAIN requests :
       (Answered(r) /\ requests[r].kind = "fetchConversations"
        /\ requests[r].status = 200)
         => conversations' = requests[r].data
    ]_vars

\* one of two calls in flight has resolved and loaded its snapshot; the call
\* still in flight carries a different one
C23_Witness ==
  /\ last.op = "fetchConversationsDone"
  /\ conversations # <<>>
  /\ \E r \in DOMAIN requests :
       /\ requests[r].kind = "fetchConversations"
       /\ requests[r].status = 200
       /\ requests[r].data # conversations

\* the class and code the taxonomy gives a failed REST response
Taxonomy(status) ==
  [type |-> IF status = 0 THEN "network"
            ELSE IF status = 401 THEN "auth" ELSE "server",
   code |-> IF status = 0 THEN NoCode ELSE status]

\* C24: every failure is classified: a REST failure with status 401 as auth
\* and with any other status as server, both with the status as code; a REST
\* failure without a response as network; and every failure of the push
\* channel (an error event, a connect_error event, a failed creation,
\* whatever they carry) as socket.
C24_ErrorClassification ==
  [][/\ \A r \in DOMAIN requests :
          (Answered(r) /\ requests[r].phase = "fetch"
           /\ requests[r].status # 200)
            => error' = Taxonomy(requests[r].status)
     /\ last'.op \in {"error", "connect_error"} => error'.type = "socket"
     /\ (last'.op = "connectSocket" /\ isAuthenticated /\ socket' = NoSocket)
          => error'.type = "socket"
    ]_vars

\* a failure has been classified as server with the status as its code
C24_Witness ==
  /\ error = [type |-> "server", code |-> 404]
  /\ last.op \in {"fetchConversationsDone", "sendMessageDone"}

\* C25: in every reachable state the messages of the open conversation are
\* in ascending order of their timestamps (equal timestamps allowed).
C25_MessagesOrdered ==
  \A i, j \in DOMAIN messages :
    i < j => messages[i].createdAt <= messages[j].createdAt

\* the ids of the messages shown as read
ReadIds(msgs) == {msgs[i].id : i \in {j \in DOMAIN msgs : msgs[j].read}}

\* C26: a message that is in the message sequence with read = true is not in
\* the sequence with read = false after any step.
C26_ReadMonotone ==
  [][\A j \in DOMAIN messages' :
       messages'[j].id \in ReadIds(messages) => messages'[j].read
    ]_vars

\* C27: in every reachable state every conversation of the directory, and the
\* open conversation, has unreadCount >= 0.
C27_UnreadNonNegative ==
  /\ \A i \in DOMAIN conversations : conversations[i].unreadCount >= 0
  /\ currentConversation # NoConv => currentConversation.unreadCount >= 0

\* fetchMessages has just reset the count of a conversation with unread
\* messages to 0 and is about to mark them read
C27_Witness ==
  /\ last.op = "fetchMessagesDone"
  /\ last.result = Pending
  /\ findConv(conversations, last.peer).unreadCount = 0
  /\ \E i \in DOMAIN messages :
       messages[i].senderId = last.peer /\ ~messages[i].read

\* the peers of the directory, in its order
PeerIds(convs) == [i \in DOMAIN convs |-> convs[i].user.id]

\* the other participant of message i
OtherParticipant(i) ==
  IF created[i].senderId = Me THEN created[i].receiverId
  ELSE created[i].senderId

\* C28: a push newMessage adds no conversation entry and removes none: the
\* peer ids of the directory are the same before and after the event, and
\* when the directory has no entry for the message's other participant the
\* event leaves the directory unchanged.
C28_PushKeepsDirectory ==
  [][last'.op = "newMessage" =>
       /\ PeerIds(conversations') = PeerIds(conversations)
       /\ findConv(conversations, OtherParticipant(last'.msg)) = NoConv
            => conversations' = conversations
    ]_vars

\* a message of a peer without an entry has just been pushed while the
\* directory holds another peer
C28_Witness ==
  /\ last.op = "newMessage"
  /\ isAuthenticated
  /\ conversations # <<>>
  /\ findConv(conversations, OtherParticipant(last.msg)) = NoConv

\* C29: sendMessage called while isAuthenticated is false issues no REST
\* call, changes no store state, invokes no logout() and rejects with a
\* ChatError of kind validation.
C29_SendUnauthenticated ==
  [][(last'.op = "sendMessage" /\ ~isAuthenticated) =>
       /\ UNCHANGED <<requests, nextReq, created>>
       /\ UNCHANGED chatVars
       /\ UNCHANGED <<isAuthenticated, user, logoutPending>>
       /\ last'.result.type = "validation"
    ]_vars

\* C30: after a typing(userId, isTyping) event userId is among the store's
\* typingUsers when isTyping is true and not among them when it is false,
\* and typingUsers is empty in every state without a connected channel.
C30_TypingToggles ==
  [][/\ last'.op = "typing" =>
          (last'.peer \in typingUsers' <=> last'.result.type = "typing")
     /\ LiveChannels' = {} => typingUsers' = {}
    ]_vars

\* the mark-read calls fetchMessages call r has still to finish; the first
\* of them is the one in flight
Remaining(reqs, r) ==
  IF r \in DOMAIN reqs /\ reqs[r].phase = "mark" THEN reqs[r].todo ELSE <<>>

\* the fetched messages the peer wrote and the user has not read
Due(r) ==
  SelectSeq(requests[r].data,
            LAMBDA m : m.senderId = requests[r].peer /\ ~m.read)

C33_ChannelErrorSurfaces ==
  [][/\ last'.op = "error" =>
          /\ error'.type = "socket"
          /\ UNCHANGED <<conversations, messages, currentConversation>>
     /\ last'.op = "connect_error" =>
          /\ error'.type = "socket"
          /\ socket' = NoSocket
          /\ UNCHANGED <<conversations, messages, currentConversation>>
     /\ (last'.op = "connectSocket" /\ isAuthenticated
         /\ channels' = channels) =>
          /\ error'.type = "socket"
          /\ socket' = NoSocket
          /\ UNCHANGED <<conversations, messages, currentConversation>>
    ]_vars

\* a connect_error has cleared the reference to a channel while the
\* directory is loaded and a conversation is open
C33_Witness ==
  /\ last.op = "connect_error"
  /\ error.type = "socket"
  /\ socket = NoSocket
  /\ conversations # <<>>
  /\ currentConversation # NoConv

\* C34: a push event (newMessage, userStatus, onlineUsers) handled right
\* after disconnectSocket() has returned, before any connectSocket(), changes
\* nothing in the store.
C34_NoPushAfterDisconnect ==
  [][(last.op = "disconnectSocket"
      /\ last'.op \in {"newMessage", "userStatus", "onlineUsers"})
       => UNCHANGED chatVars
    ]_vars

\* C35: no connection attempt is made while isAuthenticated is false:
\* connectSocket() opens no channel then, and the disconnect handler makes no
\* socket.connect() call then, whatever the reason of the disconnect.
C35_NoConnectUnauthenticated ==
  [][~isAuthenticated =>
       /\ last'.op = "connectSocket" => UNCHANGED <<channels, socket>>
       /\ last'.op = "disconnect" =>
            /\ last'.result.code = 0
            /\ channels'[last'.chan] # "connecting"
    ]_vars

\* C36: in every reachable state with an open conversation for a peer P,
\* every message of the message sequence has senderId = P or receiverId = P.
C36_MessagesOfOpenPeer ==
  currentConversation # NoConv =>
    \A i \in DOMAIN messages :
      Involves(messages[i], currentConversation.user.id)

\* the response of a sendMessage to one peer has arrived while the
\* conversation of the other peer is open and shows that peer's messages
C36_Witness ==
  /\ last.op = "sendMessageDone"
  /\ last.msg # 0
  /\ currentConversation # NoConv
  /\ currentConversation.user.id # last.peer
  /\ messages # <<>>

\* C37: in every reachable state in which the GET of a fetchConversations or
\* fetchMessages call is in flight, loading is true.
C37_LoadingWhileInFlight ==
  FetchesInFlight # {} => loading

\* C38: the response of a REST call that is handled after the session has
\* ended, when the user is logged out and the store holds no conversations,
\* no messages and no open conversation, leaves all three empty.
C38_NoLateRepopulation ==
  [][\A r \in DOMAIN requests :
       (Answered(r) /\ ~isAuthenticated /\ conversations = <<>>
        /\ messages = <<>> /\ currentConversation = NoConv)
         => /\ conversations' = <<>>
            /\ messages' = <<>>
            /\ currentConversation' = NoConv
    ]_vars

\* C39: a newMessage event whose sender is the peer of the open conversation
\* appends the message and starts one markMessageAsRead call, for that
\* message id; a newMessage event that is self-authored or belongs to a
\* conversation that is not open starts none.
C39_PushReadReceipt ==
  [][last'.op = "newMessage" =>
       IF currentConversation # NoConv
          /\ created[last'.msg].senderId = currentConversation.user.id
         THEN /\ DOMAIN requests' = DOMAIN requests \cup {nextReq}
              /\ nextReq \notin DOMAIN requests
              /\ requests'[nextReq].kind = "markRead"
              /\ requests'[nextReq].msg = last'.msg
              /\ \A r \in DOMAIN requests : requests'[r] = requests[r]
              /\ Len(messages') = Len(messages) + 1
              /\ messages'[Len(messages')].id = last'.msg
         ELSE requests' = requests
    ]_vars

\* a message of the open peer has just been pushed: it is shown and its read
\* receipt is in flight
C39_Witness ==
  /\ last.op = "newMessage"
  /\ currentConversation # NoConv
  /\ created[last.msg].senderId = currentConversation.user.id
  /\ last.msg \in Ids(messages)
  /\ \E r \in DOMAIN requests :
       requests[r].kind = "markRead" /\ requests[r].msg = last.msg

\* C40: handling a failed GET of fetchConversations or fetchMessages changes
\* two fields of the store only: error becomes the classified ChatError and
\* loading becomes false; conversations, messages and currentConversation
\* (and socket and onlineUsers) are as they were.
C40_FailedFetchFrame ==
  [][\A r \in DOMAIN requests :
       (Answered(r) /\ requests[r].phase = "fetch"
        /\ requests[r].kind \in {"fetchConversations", "fetchMessages"}
        /\ requests[r].status # 200)
         => /\ UNCHANGED <<conversations, messages, currentConversation,
                           socket, onlineUsers>>
            /\ error' = handleAxiosError(requests[r])
            /\ ~loading'
    ]_vars

\* a fetchMessages has failed while a conversation is open and shows
\* messages
C40_Witness ==
  /\ last.op = "fetchMessagesDone"
  /\ last.result.type \in {"server", "network"}
  /\ error = last.result
  /\ currentConversation # NoConv
  /\ messages # <<>>

====
